---- MODULE Spec2Model ----
(***************************************************************************)
(* Model of lambda/apigw-handler/index.py (the API Gateway -> Lambda ->    *)
(* DynamoDB request handler) and of the table declared in the CDK stack.   *)
(*                                                                         *)
(* One execution environment of the function is modelled: it runs one      *)
(* invocation at a time, invocation after invocation.  Python values are   *)
(* tagged records; the log and the put_item calls of the current           *)
(* invocation are recorded, in program order, in the variable trace.       *)
(* The "timestamp" field of the log events is not modelled.                *)
(***************************************************************************)
EXTENDS Integers, Sequences, FiniteSets, TLC

(* ---- bounds ----------------------------------------------------------- *)
MaxInvocations == 2

(* ---- Python values ---------------------------------------------------- *)
PyNone == [t |-> "None"]
PyStr(s) == [t |-> "str", s |-> s]
PyNum(n) == [t |-> "num", n |-> n]
PyDict(f) == [t |-> "dict", d |-> f]
PyList == [t |-> "list"]
EmptyDict == [k \in {} |-> PyNone]

IsDict(v) == v.t = "dict"

\* dict.get(key, default)
Get(v, key, default) == IF key \in DOMAIN v.d THEN v.d[key] ELSE default

\* bool(v) for the values a body can take: None and "" are falsy
Truthy(v) == CASE v.t = "None" -> FALSE
               [] v.t = "str" -> v.s # ""
               [] v.t = "num" -> v.n # 0
               [] v.t = "dict" -> DOMAIN v.d # {}
               [] OTHER -> FALSE

\* str(v)
Str(v) == CASE v.t = "str" -> v.s
            [] v.t = "num" -> ToString(v.n)
            [] v.t = "None" -> "None"
            [] OTHER -> "?"

(* ---- JSON text -------------------------------------------------------- *)
RequiredFields == <<"year", "title", "id">>

Quote(s) == "\"" \o s \o "\""

JsonScalar(v) == CASE v.t = "str" -> Quote(v.s)
                   [] v.t = "num" -> ToString(v.n)
                   [] OTHER -> "null"

RECURSIVE JsonMembers(_, _)
JsonMembers(f, keys) ==
    IF keys = <<>> THEN ""
    ELSE LET k == Head(keys)
             rest == JsonMembers(f, Tail(keys))
         IN IF k \in DOMAIN f
            THEN Quote(k) \o ": " \o JsonScalar(f[k])
                 \o (IF rest = "" THEN "" ELSE ", " \o rest)
            ELSE rest

\* the JSON text of a value, as json.dumps writes it
JsonDumps(v) == CASE v.t = "dict" -> "{" \o JsonMembers(v.d, RequiredFields) \o "}"
                  [] v.t = "list" -> "[]"
                  [] OTHER -> JsonScalar(v)

(* ---- inputs ----------------------------------------------------------- *)
YearValues == {PyNum(1999), PyStr("2012")}
TitleValues == {PyStr("The Matrix"), PyStr("Up")}
IdValues == {PyStr("m1"), PyStr("m2")}

FieldValues(k) == CASE k = "year" -> YearValues
                    [] k = "title" -> TitleValues
                    [] k = "id" -> IdValues

\* JSON objects carrying any subset of the three fields
PayloadObjects ==
    UNION { { PyDict(f) : f \in { g \in [K -> YearValues \cup TitleValues \cup IdValues] :
                                    \A k \in K : g[k] \in FieldValues(k) } }
            : K \in SUBSET {"year", "title", "id"} }

JsonValues == PayloadObjects \cup {PyList}

NotJson == "not json"

BodyStrings == { JsonDumps(v) : v \in JsonValues } \cup {"", NotJson}

\* json.loads: the value whose JSON text is s, or a JSONDecodeError
JsonLoads(s) ==
    IF \E v \in JsonValues : JsonDumps(v) = s
    THEN [ok |-> TRUE, value |-> CHOOSE v \in JsonValues : JsonDumps(v) = s]
    ELSE [ok |-> FALSE, value |-> PyNone]

Identity == PyDict([sourceIp |-> PyStr("203.0.113.7"), userAgent |-> PyStr("curl/8")])

\* requestContext values: a full one, one without identity, null, null identity
RequestContexts == { PyDict([identity |-> Identity]), PyDict(EmptyDict),
                     PyNone, PyDict([identity |-> PyNone]) }

BodyValues == { PyStr(s) : s \in BodyStrings } \cup {PyNone}

\* events: each of the keys body and requestContext may be missing
Events ==
    { PyDict([body |-> b, requestContext |-> rc]) : b \in BodyValues, rc \in RequestContexts }
    \cup { PyDict([body |-> b]) : b \in BodyValues }
    \cup { PyDict([requestContext |-> rc]) : rc \in RequestContexts }
    \cup { PyDict(EmptyDict) }

TableNames == {PyStr("DemoTable"), PyNone}
FunctionName == "apigw_handler"

(* ---- exceptions -------------------------------------------------------- *)
NoExc == [type |-> "", message |-> ""]
AttributeError == [type |-> "AttributeError", message |-> "'NoneType' object has no attribute 'get'"]
KeyError(k) == [type |-> "KeyError", message |-> "'" \o k \o "'"]
TypeError == [type |-> "TypeError", message |-> "list indices must be integers or slices, not str"]
JSONDecodeError == [type |-> "JSONDecodeError", message |-> "Expecting value: line 1 column 1 (char 0)"]
ParamValidationError == [type |-> "ParamValidationError", message |-> "Invalid type for parameter TableName"]
StoreErrors == { [type |-> "ClientError", message |-> "An error occurred when calling the PutItem operation"],
                 [type |-> "EndpointConnectionError", message |-> "Could not connect to the endpoint URL"] }

(* ---- state ------------------------------------------------------------ *)
VARIABLES
    env,          \* os.environ.get("TABLE_NAME"): fixed for the life of the process
    store,        \* the items of the DynamoDB table, at most one per id
    writes,       \* history: the put_item calls that succeeded, oldest first
    uuidsIssued,  \* history: the numbers of the tokens uuid.uuid4() has returned
    invocations,  \* number of invocations started so far
    pc,           \* position of the current invocation in handler
    event, request_id,
    table, source_ip, user_agent,
    item, year, title, id, default_id,
    exc,          \* the exception in flight
    trace,        \* log events and put_item calls of the current invocation
    result        \* how the current invocation ended

globals == <<env, store, writes, uuidsIssued, invocations>>
locals == <<event, request_id, table, source_ip, user_agent, item, year, title, id, default_id>>
vars == <<globals, locals, pc, exc, trace, result>>

NoResult == [kind |-> "none"]
Returned(r) == [kind |-> "return", response |-> r]
Raised(e) == [kind |-> "raise", exc |-> e]

(* ---- log events (the timestamp field is left out) ---------------------- *)
LogReceived(ip, ua, rid, tbl) ==
    [op |-> "log", level |-> "INFO", event_type |-> "api_request_received",
     source_ip |-> ip, user_agent |-> ua, request_id |-> rid,
     function_name |-> FunctionName, table_name |-> tbl]

\* variant: the event is emitted under the name of the write-success event
DataProcessingStartMislabelled(hasPayload, rid, ip) ==
    IF hasPayload
    THEN [op |-> "log", level |-> "INFO", event_type |-> "dynamodb_write_success",
          has_payload |-> TRUE, request_id |-> rid, source_ip |-> ip]
    ELSE [op |-> "log", level |-> "INFO", event_type |-> "dynamodb_write_success",
          has_payload |-> FALSE, default_processing |-> TRUE,
          request_id |-> rid, source_ip |-> ip]

\* the payload branch's event has no default_processing field
DataProcessingStart(hasPayload, rid, ip) ==
    IF hasPayload
    THEN [op |-> "log", level |-> "INFO", event_type |-> "data_processing_start",
          has_payload |-> TRUE, request_id |-> rid, source_ip |-> ip]
    ELSE [op |-> "log", level |-> "INFO", event_type |-> "data_processing_start",
          has_payload |-> FALSE, default_processing |-> TRUE,
          request_id |-> rid, source_ip |-> ip]

LogWriteSuccess(tbl, itemId, isDefault, rid, ip) ==
    IF isDefault
    THEN [op |-> "log", level |-> "INFO", event_type |-> "dynamodb_write_success",
          table_name |-> tbl, item_id |-> itemId, default_processing |-> TRUE,
          request_id |-> rid, source_ip |-> ip]
    ELSE [op |-> "log", level |-> "INFO", event_type |-> "dynamodb_write_success",
          table_name |-> tbl, item_id |-> itemId,
          request_id |-> rid, source_ip |-> ip]

LogCompleted(rid, ip) ==
    [op |-> "log", level |-> "INFO", event_type |-> "api_request_completed",
     status |-> "success", request_id |-> rid, source_ip |-> ip]

LogError(e, rid, ip, tbl) ==
    [op |-> "log", level |-> "ERROR", event_type |-> "api_request_error",
     error_type |-> e.type, error_message |-> e.message,
     request_id |-> rid, source_ip |-> ip, table_name |-> tbl]

\* the record of one dynamodb_client.put_item call and of how it ended
PutCall(tbl, it, ok) == [op |-> "put_item", TableName |-> tbl, Item |-> it, ok |-> ok]

(* ---- the response ------------------------------------------------------ *)
StatusOK == 200
Message == "Successfully inserted data!"

\* variant: the body carries the text under another key
SuccessResponseWrongKey ==
    [statusCode |-> StatusOK,
     headers |-> ("Content-Type" :> "application/json"),
     body |-> "{" \o Quote("msg") \o ": " \o Quote(Message) \o "}"]

SuccessResponse ==
    [statusCode |-> StatusOK,
     headers |-> ("Content-Type" :> "application/json"),
     body |-> "{" \o Quote("message") \o ": " \o Quote(Message) \o "}"]

(* ---- the table --------------------------------------------------------- *)
\* variant: title and id change places
PayloadItemSwapped(y, t, i) == [year |-> [N |-> y], title |-> [S |-> i], id |-> [S |-> t]]

\* Item= of the payload branch
PayloadItem(y, t, i) == [year |-> [N |-> y], title |-> [S |-> t], id |-> [S |-> i]]

DefaultYear == "2012"
DefaultTitle == "The Amazing Spider-Man 2"

\* Item= of the default branch
DefaultItem(i) == [year |-> [N |-> DefaultYear], title |-> [S |-> DefaultTitle], id |-> [S |-> i]]

\* PutItem on a table whose partition key is id: the item replaces the one of the same id
Put(st, it) == { r \in st : r.id # it.id } \cup {it}

\* the ways one put_item call can end: botocore rejects TableName=None before
\* any request is sent; otherwise the item is stored or the call raises
PutItemOutcomes(tbl, it, st) ==
    IF tbl = PyNone
    THEN { [ok |-> FALSE, exc |-> ParamValidationError, store |-> st] }
    ELSE { [ok |-> TRUE, exc |-> NoExc, store |-> Put(st, it)] }
         \cup { [ok |-> FALSE, exc |-> e, store |-> st] : e \in StoreErrors }

\* variant: the token is generated once and reused
Uuid4Fixed(issued) == {1}

\* str(uuid.uuid4()): a token that no earlier call has returned
Uuid4(issued) == { n \in 1..MaxInvocations : n \notin issued }

UuidStr(n) == "uuid-" \o ToString(n)

(* ---- request metadata (lines 39-42) ------------------------------------ *)
RequestContextOf(ev) == Get(ev, "requestContext", PyDict(EmptyDict))

IdentityOf(ev) == Get(RequestContextOf(ev), "identity", PyDict(EmptyDict))

\* neither request_context.get nor identity.get raises AttributeError
MetadataReadable(ev) == IsDict(RequestContextOf(ev)) /\ IsDict(IdentityOf(ev))

\* variant: the try block is run again
RetryTarget == "try"

\* where control goes when a statement of the try block raises
ExceptionTarget == "except"

Init ==
    /\ env \in TableNames
    /\ store = {}
    /\ writes = <<>>
    /\ uuidsIssued = {}
    /\ invocations = 0
    /\ pc = "idle"
    /\ event = PyNone
    /\ request_id = 0
    /\ table = PyNone
    /\ source_ip = PyNone
    /\ user_agent = PyNone
    /\ item = PyNone
    /\ year = PyNone
    /\ title = PyNone
    /\ id = PyNone
    /\ default_id = PyNone
    /\ exc = NoExc
    /\ trace = <<>>
    /\ result = NoResult

\* handler(event, context) is called: lines 36-63.  An AttributeError raised
\* while the metadata is read is outside the try block and leaves the handler.
Invoke(ev) ==
    /\ pc \in {"idle", "done"}
    /\ invocations < MaxInvocations
    /\ invocations' = invocations + 1
    /\ event' = ev
    /\ request_id' = invocations + 1
    /\ table' = env
    /\ item' = PyNone /\ year' = PyNone /\ title' = PyNone
    /\ id' = PyNone /\ default_id' = PyNone
    /\ IF MetadataReadable(ev)
       THEN /\ source_ip' = Get(IdentityOf(ev), "sourceIp", PyStr("unknown"))
            /\ user_agent' = Get(IdentityOf(ev), "userAgent", PyStr("unknown"))
            /\ trace' = << LogReceived(source_ip', user_agent', request_id', table') >>
            /\ exc' = NoExc
            /\ result' = NoResult
            /\ pc' = "try"
       ELSE /\ source_ip' = PyNone
            /\ user_agent' = PyNone
            /\ trace' = <<>>
            /\ exc' = AttributeError
            /\ result' = Raised(AttributeError)
            /\ pc' = "done"
    /\ UNCHANGED <<env, store, writes, uuidsIssued>>

\* line 66: if event["body"]
Branch ==
    /\ pc = "try"
    /\ IF "body" \notin DOMAIN event.d
       THEN /\ exc' = KeyError("body")
            /\ pc' = ExceptionTarget
       ELSE /\ exc' = exc
            /\ pc' = IF Truthy(event.d["body"]) THEN "payload" ELSE "default"
    /\ UNCHANGED <<globals, locals, trace, result>>

\* lines 68-77: json.loads(event["body"]), then the data_processing_start event
ParsePayload ==
    /\ pc = "payload"
    /\ LET r == JsonLoads(event.d["body"].s) IN
         IF r.ok
         THEN /\ item' = r.value
              /\ trace' = Append(trace, DataProcessingStart(TRUE, request_id, source_ip))
              /\ exc' = exc
              /\ pc' = "fields"
         ELSE /\ item' = item
              /\ trace' = trace
              /\ exc' = JSONDecodeError
              /\ pc' = ExceptionTarget
    /\ UNCHANGED <<globals, event, request_id, table, source_ip, user_agent,
                   year, title, id, default_id, result>>

\* variant: a missing field is read as item.get(k, "")
FieldLookupLenient(it) ==
    IF ~IsDict(it) THEN [ok |-> FALSE, exc |-> TypeError]
    ELSE [ok |-> TRUE, exc |-> NoExc]

\* item[k] for the three fields in source order: the first lookup that fails
FieldLookup(it) ==
    IF ~IsDict(it) THEN [ok |-> FALSE, exc |-> TypeError]
    ELSE IF "year" \notin DOMAIN it.d THEN [ok |-> FALSE, exc |-> KeyError("year")]
    ELSE IF "title" \notin DOMAIN it.d THEN [ok |-> FALSE, exc |-> KeyError("title")]
    ELSE IF "id" \notin DOMAIN it.d THEN [ok |-> FALSE, exc |-> KeyError("id")]
    ELSE [ok |-> TRUE, exc |-> NoExc]

\* lines 79-85: year, title, id = str(item[...]).  FieldLookup has established
\* that the three keys are present, so the defaults of Get are never used.
ExtractFields ==
    /\ pc = "fields"
    /\ LET r == FieldLookup(item) IN
         IF r.ok
         THEN /\ year' = PyStr(Str(Get(item, "year", PyStr(""))))
              /\ title' = PyStr(Str(Get(item, "title", PyStr(""))))
              /\ id' = PyStr(Str(Get(item, "id", PyStr(""))))
              /\ exc' = exc
              /\ pc' = "put_payload"
         ELSE /\ UNCHANGED <<year, title, id>>
              /\ exc' = r.exc
              /\ pc' = ExceptionTarget
    /\ UNCHANGED <<globals, event, request_id, table, source_ip, user_agent,
                   item, default_id, trace, result>>

\* lines 87-100: put_item of the payload branch, then dynamodb_write_success
PutItemPayload ==
    /\ pc = "put_payload"
    /\ \E o \in PutItemOutcomes(table, PayloadItem(year.s, title.s, id.s), store) :
         /\ store' = o.store
         /\ IF o.ok
            THEN /\ trace' = trace \o << PutCall(table, PayloadItem(year.s, title.s, id.s), TRUE),
                                        LogWriteSuccess(table, id.s, FALSE, request_id, source_ip) >>
                 /\ writes' = Append(writes, [path |-> "payload", request_id |-> request_id,
                                              item |-> PayloadItem(year.s, title.s, id.s)])
                 /\ exc' = exc
                 /\ pc' = "complete"
            ELSE /\ trace' = Append(trace, PutCall(table, PayloadItem(year.s, title.s, id.s), FALSE))
                 /\ writes' = writes
                 /\ exc' = o.exc
                 /\ pc' = ExceptionTarget
    /\ UNCHANGED <<env, uuidsIssued, invocations, locals, result>>

\* lines 104-118: default_id = str(uuid.uuid4()), then data_processing_start
GenerateDefault ==
    /\ pc = "default"
    /\ \E n \in Uuid4(uuidsIssued) :
         /\ default_id' = PyStr(UuidStr(n))
         /\ uuidsIssued' = uuidsIssued \cup {n}
    /\ trace' = Append(trace, DataProcessingStart(FALSE, request_id, source_ip))
    /\ pc' = "put_default"
    /\ UNCHANGED <<env, store, writes, invocations, event, request_id, table,
                   source_ip, user_agent, item, year, title, id, exc, result>>

\* lines 120-138: put_item of the default branch, then dynamodb_write_success
PutItemDefault ==
    /\ pc = "put_default"
    /\ \E o \in PutItemOutcomes(table, DefaultItem(default_id.s), store) :
         /\ store' = o.store
         /\ IF o.ok
            THEN /\ trace' = trace \o << PutCall(table, DefaultItem(default_id.s), TRUE),
                                        LogWriteSuccess(table, default_id.s, TRUE, request_id, source_ip) >>
                 /\ writes' = Append(writes, [path |-> "default", request_id |-> request_id,
                                              item |-> DefaultItem(default_id.s)])
                 /\ exc' = exc
                 /\ pc' = "complete"
            ELSE /\ trace' = Append(trace, PutCall(table, DefaultItem(default_id.s), FALSE))
                 /\ writes' = writes
                 /\ exc' = o.exc
                 /\ pc' = ExceptionTarget
    /\ UNCHANGED <<env, uuidsIssued, invocations, locals, result>>

\* lines 141-154: api_request_completed, then return the response
Complete ==
    /\ pc = "complete"
    /\ trace' = Append(trace, LogCompleted(request_id, source_ip))
    /\ result' = Returned(SuccessResponse)
    /\ pc' = "done"
    /\ UNCHANGED <<globals, locals, exc>>

\* lines 156-169: except Exception: log api_request_error and re-raise
Except ==
    /\ pc = "except"
    /\ trace' = Append(trace, LogError(exc, request_id, source_ip, table))
    /\ result' = Raised(exc)
    /\ pc' = "done"
    /\ UNCHANGED <<globals, locals, exc>>

Next ==
    \/ \E ev \in Events : Invoke(ev)
    \/ Branch
    \/ ParsePayload
    \/ ExtractFields
    \/ PutItemPayload
    \/ GenerateDefault
    \/ PutItemDefault
    \/ Complete
    \/ Except

Spec == Init /\ [][Next]_vars

(* ---- vocabulary of the properties --------------------------------------- *)
IsPut(e) == e.op = "put_item"
IsLog(e) == e.op = "log"

\* the put_item calls of the current invocation, in order
PutCalls == SelectSeq(trace, IsPut)

\* the kinds of the entries of trace, in order
Tags == [i \in 1..Len(trace) |-> IF IsLog(trace[i]) THEN trace[i].event_type ELSE "put_item"]

CountTag(tag) == Cardinality({ i \in 1..Len(trace) : Tags[i] = tag })

Started == pc # "idle"
Done == pc = "done"

HasBody == "body" \in DOMAIN event.d

\* the body is a non-empty JSON object string carrying year, title and id
WellFormedBody ==
    /\ HasBody
    /\ event.d["body"].t = "str"
    /\ \E o \in PayloadObjects :
         /\ DOMAIN o.d = {"year", "title", "id"}
         /\ event.d["body"].s = JsonDumps(o)

\* the body is a non-empty string that is not such an object
MalformedBody ==
    /\ HasBody
    /\ event.d["body"].t = "str"
    /\ event.d["body"].s # ""
    /\ ~WellFormedBody

\* the body key is missing, or the body is null or the empty string
EmptyOrAbsentBody ==
    \/ ~HasBody
    \/ event.d["body"] = PyNone
    \/ event.d["body"] = PyStr("")

\* what the caller sent, once the body is well formed
Sent == CHOOSE o \in PayloadObjects : event.d["body"].s = JsonDumps(o)

YearText(v) == IF v.t = "num" THEN ToString(v.n) ELSE v.s

OkResponse(r) ==
    /\ r.statusCode = 200
    /\ r.headers = ("Content-Type" :> "application/json")
    /\ r.body = "{\"message\": \"Successfully inserted data!\"}"

\* C1: an invocation that returns has returned exactly the 200 response with
\* the success message, after exactly one put_item call, which succeeded and
\* whose item is in the table.
C1_SuccessContract ==
    (Done /\ result.kind = "return") =>
        /\ OkResponse(result.response)
        /\ Len(PutCalls) = 1
        /\ PutCalls[1].ok
        /\ PutCalls[1].Item \in store

C1_Witness ==
    /\ Done
    /\ result.kind = "return"
    /\ Len(writes) = 1

\* C2: an invocation whose body is a JSON object with year, title and id (and
\* whose request metadata can be read) makes exactly one put_item call, on the
\* table named by TABLE_NAME, with exactly the attributes id (S), year (N)
\* and title (S) holding the caller's values; when that call succeeds the
\* item is stored and the 200 response with the success message is returned.
C2_PayloadPath ==
    (Done /\ WellFormedBody /\ MetadataReadable(event)) =>
        /\ Len(PutCalls) = 1
        /\ PutCalls[1].TableName = env
        /\ PutCalls[1].Item = [id |-> [S |-> Sent.d["id"].s],
                               year |-> [N |-> YearText(Sent.d["year"])],
                               title |-> [S |-> Sent.d["title"].s]]
        /\ PutCalls[1].ok =>
             /\ result.kind = "return"
             /\ OkResponse(result.response)
             /\ PutCalls[1].Item \in store

C2_Witness ==
    /\ Done
    /\ WellFormedBody
    /\ Sent.d["year"] = PyNum(1999)
    /\ result.kind = "return"
    /\ [id |-> [S |-> "m1"], year |-> [N |-> "1999"], title |-> [S |-> "The Matrix"]] \in store

\* C3 (as claimed): an invocation whose body key is missing, null or the
\* empty string makes one put_item call with the default record (year 2012,
\* title "The Amazing Spider-Man 2", a generated id) on the configured table,
\* and returns the 200 response when that call succeeds.
C3_DefaultPath_Claimed ==
    (Done /\ env # PyNone /\ MetadataReadable(event) /\ EmptyOrAbsentBody) =>
        /\ Len(PutCalls) = 1
        /\ PutCalls[1].TableName = env
        /\ \E n \in uuidsIssued :
             PutCalls[1].Item = [id |-> [S |-> UuidStr(n)],
                                 year |-> [N |-> "2012"],
                                 title |-> [S |-> "The Amazing Spider-Man 2"]]
        /\ PutCalls[1].ok => (result.kind = "return" /\ OkResponse(result.response))

\* C4: an invocation whose body is a non-empty string that is not valid JSON,
\* or is JSON without year, title or id, never calls put_item and never
\* returns; it ends by raising, and the error of the payload is logged once,
\* as the last event, as api_request_error.
C4_MalformedPayload ==
    (Started /\ MalformedBody) =>
        /\ PutCalls = <<>>
        /\ result.kind # "return"
        /\ pc \notin {"put_payload", "default", "put_default", "complete"}
        /\ Done =>
             /\ result.kind = "raise"
             /\ MetadataReadable(event) =>
                  /\ result.exc.type \in {"JSONDecodeError", "KeyError", "TypeError"}
                  /\ CountTag("api_request_error") = 1
                  /\ Tags[Len(trace)] = "api_request_error"
                  /\ trace[Len(trace)].error_type = result.exc.type

C4_Witness ==
    /\ Done
    /\ MalformedBody
    /\ result.kind = "raise"
    /\ result.exc = KeyError("title")
    /\ Tags = <<"api_request_received", "data_processing_start", "api_request_error">>

\* C5 (as claimed): with TABLE_NAME missing an invocation ends in an error
\* without having issued any put_item call.
C5_ConfigError_Claimed ==
    (Done /\ env = PyNone) =>
        /\ result.kind = "raise"
        /\ PutCalls = <<>>

\* C6 (as claimed): every successful write adds a new record: the table holds
\* as many records as there were successful writes, and no stored record is
\* ever replaced or removed.
C6_InsertOnly_Claimed ==
    /\ Cardinality(store) = Len(writes)
    /\ \A i \in 1..Len(writes) : writes[i].item \in store

\* C7: the ids generated by successful default-path invocations are pairwise
\* distinct, and after n of them (and no payload write) the table holds n
\* distinct default records.
C7_GeneratedIdsDistinct ==
    /\ \A i, j \in 1..Len(writes) :
         (i # j /\ writes[i].path = "default" /\ writes[j].path = "default")
            => writes[i].item.id # writes[j].item.id
    /\ (\A i \in 1..Len(writes) : writes[i].path = "default") =>
         /\ Cardinality(store) = Len(writes)
         /\ \A r \in store : r.year = [N |-> "2012"] /\ r.title = [S |-> "The Amazing Spider-Man 2"]

C7_Witness ==
    /\ Len(writes) = 2
    /\ writes[1].path = "default"
    /\ writes[2].path = "default"
    /\ Cardinality(store) = 2

\* C8: an invocation calls put_item at most once; when the call fails the
\* invocation ends by raising the call's error, logged as api_request_error,
\* with no dynamodb_write_success, no api_request_completed and no response,
\* and the table is left as it was.
C8_SingleWriteNoRetry ==
    /\ Len(PutCalls) <= 1
    /\ (Len(PutCalls) = 1 /\ ~PutCalls[1].ok) =>
         /\ pc \in {"except", "done"}
         /\ CountTag("dynamodb_write_success") = 0
         /\ CountTag("api_request_completed") = 0
         /\ result.kind # "return"
         /\ exc.type \in {"ClientError", "EndpointConnectionError", "ParamValidationError"}
         /\ Done =>
              /\ result = Raised(exc)
              /\ Tags[Len(trace)] = "api_request_error"
              /\ Tags[Len(trace) - 1] = "put_item"
              /\ trace[Len(trace)].error_type = exc.type

C8_Witness ==
    /\ Done
    /\ Len(PutCalls) = 1
    /\ ~PutCalls[1].ok
    /\ result.kind = "raise"
    /\ result.exc.type = "ClientError"

\* C9 (as claimed): an invocation that ends by raising has logged exactly one
\* api_request_error event, carrying the type of the exception it raises.
C9_NoErrorUnlogged_Claimed ==
    (Done /\ result.kind = "raise") =>
        /\ CountTag("api_request_error") = 1
        /\ trace[Len(trace)].error_type = result.exc.type

\* C10: api_request_received is the first event and occurs once; a returning
\* invocation has logged exactly received, data_processing_start,
\* dynamodb_write_success, completed, with the put_item call between the second
\* and the third; dynamodb_write_success directly follows a put_item call that
\* succeeded; completed and error never occur in the same invocation.
C10_EventOrder ==
    /\ trace # <<>> => Tags[1] = "api_request_received"
    /\ \A i \in 2..Len(trace) : Tags[i] # "api_request_received"
    /\ (Done /\ result.kind = "return") =>
         Tags = <<"api_request_received", "data_processing_start", "put_item",
                  "dynamodb_write_success", "api_request_completed">>
    /\ \A i \in 1..Len(trace) :
         Tags[i] = "dynamodb_write_success" =>
            /\ i > 1
            /\ Tags[i - 1] = "put_item"
            /\ trace[i - 1].ok
    /\ \A i \in 1..Len(trace) :
         Tags[i] = "put_item" => (i > 1 /\ Tags[i - 1] = "data_processing_start")
    /\ ~(CountTag("api_request_completed") > 0 /\ CountTag("api_request_error") > 0)

C10_Witness ==
    /\ Done
    /\ result.kind = "return"
    /\ Tags[3] = "put_item"
    /\ Tags[5] = "api_request_completed"

====
